---- MODULE Spec2Model ----
(***************************************************************************)
(* Visitor passes (src/visitors/models.py): the stored rows of the Visitor *)
(* table, the callers that hold in-memory Visitor instances, the row lock  *)
(* taken by VisitorManager.get_and_update, and the clock tz_now().          *)
(***************************************************************************)
EXTENDS Integers, Sequences, FiniteSets, TLC

\* ---- bounds ----
MaxCallers == 2
MaxTime == 1
MaxUsesBound == 1
MaxParams == 2
MaxTokenise == 2

\* DEFAULT_TOKEN_EXPIRY (models.py:35), in clock ticks
DEFAULT_TOKEN_EXPIRY == 1

\* Python None for the nullable columns expires_at, max_uses, uses_remaining
None == -1

Callers == 1..MaxCallers

\* The model follows one pass: every operation addresses a single row, by its
\* uuid or by the primary key of the instance, and reads or writes no other.
\* PassIds are the primary keys the table can hold, Tokens the uuid4 values
\* that can be generated; UnknownTokens are uuids that were never issued.
PassIds == {1}
Tokens == {1}
UnknownTokens == {0}

\* Where two passes are followed (SpecIssue, SpecTwo): the primary keys and
\* the uuid4 values of a table of two rows
AllIds == {1, 2}
AllTokens == {1, 2}

\* The email and scope arguments of a creation
Emails == {"", "v@x.test"}
Scopes == {"", "s"}
Times == 0..MaxTime
MaxUsesOptions == {None} \cup (0..MaxUsesBound)
ExpiresAtOptions == {None} \cup Times

VARIABLES
    db,      \* the Visitor table: a sequence of rows, the index is the pk
    lock,    \* lock[i]: the caller whose transaction holds row i's lock, 0 if free
    now,     \* tz_now()
    pc,      \* pc[c]: "idle", "locked" (after select_for_update), "done" (before commit)
    obj,     \* obj[c]: the Visitor instance caller c holds in memory
    res,     \* res[c]: outcome of caller c's last operation
    used,    \* used[i]: successful get_and_update calls on row i since it was
             \* created or last reactivated (history, counted up to UsedCap)
    link     \* link.urls: a url followed by the results of tokenising it again
             \* and again with the pass whose uuid is link.uuid

vars == <<db, lock, now, pc, obj, res, used, link>>

\* No url is being tokenised
NoLink == [uuid |-> 0, urls |-> <<>>]

\* A caller that holds no instance
NoObj == [id |-> 0, uuid |-> 0, email |-> "", scope |-> "", created_at |-> 0,
          expires_at |-> None, is_active |-> FALSE, max_uses |-> None,
          uses_remaining |-> None]

\* ---- Visitor fields and pure methods ----

\* Variant: expires_at is not defaulted
VisitorInit_no_expiry_default(v) ==
    LET u == IF v.max_uses # None /\ v.uses_remaining = None
             THEN v.max_uses ELSE v.uses_remaining
    IN [v EXCEPT !.uses_remaining = u]

\* Variant: max_uses is tested for truth ("if self.max_uses and ..."), so
\* max_uses = 0 gets no default
VisitorInit_truthy_max_uses(v) ==
    LET e == IF v.expires_at = None
             THEN v.created_at + DEFAULT_TOKEN_EXPIRY ELSE v.expires_at
        u == IF v.max_uses # None /\ v.max_uses # 0 /\ v.uses_remaining = None
             THEN v.max_uses ELSE v.uses_remaining
    IN [v EXCEPT !.expires_at = e, !.uses_remaining = u]

\* Variant: uses_remaining is not defaulted
VisitorInit_no_uses_default(v) ==
    LET e == IF v.expires_at = None
             THEN v.created_at + DEFAULT_TOKEN_EXPIRY ELSE v.expires_at
    IN [v EXCEPT !.expires_at = e]

\* Visitor.__init__: defaults expires_at and uses_remaining
VisitorInit(v) ==
    LET e == IF v.expires_at = None
             THEN v.created_at + DEFAULT_TOKEN_EXPIRY ELSE v.expires_at
        u == IF v.max_uses # None /\ v.uses_remaining = None
             THEN v.max_uses ELSE v.uses_remaining
    IN [v EXCEPT !.expires_at = e, !.uses_remaining = u]

\* Variant: the pass expires at expires_at itself
has_expired_nonstrict(v, t) ==
    IF v.expires_at = None THEN FALSE ELSE v.expires_at <= t

has_expired(v, t) ==
    IF v.expires_at = None THEN FALSE ELSE v.expires_at < t

\* Variant: taken to mean "has gone below zero"
out_of_uses_negative(v) ==
    IF v.max_uses = None THEN FALSE ELSE v.uses_remaining < 0

out_of_uses(v) ==
    IF v.max_uses = None THEN FALSE ELSE v.uses_remaining = 0

is_valid(v, t) ==
    v.is_active /\ ~has_expired(v, t) /\ ~out_of_uses(v)

\* Variant: the is_active check is missing
validate_no_active_check(v, t) ==
    IF has_expired(v, t) THEN "Expired"
    ELSE IF out_of_uses(v) THEN "ExhaustedUses"
    ELSE "ok"

\* Variant: the expiry check comes first
validate_expiry_first(v, t) ==
    IF has_expired(v, t) THEN "Expired"
    ELSE IF ~v.is_active THEN "Inactive"
    ELSE IF out_of_uses(v) THEN "ExhaustedUses"
    ELSE "ok"

\* Visitor.validate: "ok" or the InvalidVisitorPass that is raised
validate(v, t) ==
    IF ~v.is_active THEN "Inactive"
    ELSE IF has_expired(v, t) THEN "Expired"
    ELSE IF out_of_uses(v) THEN "ExhaustedUses"
    ELSE "ok"

\* ---- the store ----

Ids == DOMAIN db

\* The instance built from row i (Model.from_db calls __init__)
FromDb(i) ==
    VisitorInit([id |-> i, uuid |-> db[i].uuid, email |-> db[i].email,
                 scope |-> db[i].scope, created_at |-> db[i].created_at,
                 expires_at |-> db[i].expires_at, is_active |-> db[i].is_active,
                 max_uses |-> db[i].max_uses,
                 uses_remaining |-> db[i].uses_remaining])

\* objects.get(uuid=u): the ids of the matching rows
Lookup(u) == {i \in Ids : db[i].uuid = u}

\* Variant: nothing waits for the row lock (a plain get, no select_for_update)
RowAvailable_unlocked(i, c) == TRUE

\* A write or a locking read of row i by caller c waits while another
\* caller's transaction holds the row lock
RowAvailable(i, c) == lock[i] = 0 \/ lock[i] = c

\* select_for_update(): the lock the read takes on row i
select_for_update(i, c) == [lock EXCEPT ![i] = c]

\* save(): UPDATE of every column from the instance; auto_now stamps the row
SaveAll(v) ==
    [uuid |-> v.uuid, email |-> v.email, scope |-> v.scope,
     created_at |-> v.created_at, expires_at |-> v.expires_at,
     is_active |-> v.is_active, max_uses |-> v.max_uses,
     uses_remaining |-> v.uses_remaining, last_updated_at |-> now]

\* save(update_fields=["uses_remaining"]): UPDATE of that column alone
SaveUsesRemaining(row, v) ==
    [row EXCEPT !.uses_remaining = v.uses_remaining]

\* Variant: the decrement runs whatever validate said
Decrements_unvalidated(v, r) == v.max_uses # None

\* Variant: the decrement runs for unlimited passes too
Decrements_unlimited(v, r) == r = "ok"

\* get_and_update, lines 25-26: control reaches the decrement when validate
\* did not raise and max_uses is set
Decrements(v, r) == r = "ok" /\ v.max_uses # None

\* Variant: two uses are taken
Decrement_twice(u) == u - 2

\* get_and_update, line 27: uses_remaining -= 1
Decrement(u) == u - 1

\* Variant: is_active is not cleared
Deactivated_keeps_active(v) == v

\* deactivate, line 158: the instance after the assignment
Deactivated(v) == [v EXCEPT !.is_active = FALSE]

\* Variant: uses_remaining is not reset
Reactivated_keeps_uses(v, t) ==
    [v EXCEPT !.is_active = TRUE, !.expires_at = t + DEFAULT_TOKEN_EXPIRY]

\* reactivate, lines 163-165: the instance after the assignments
Reactivated(v, t) ==
    [v EXCEPT !.is_active = TRUE,
              !.expires_at = t + DEFAULT_TOKEN_EXPIRY,
              !.uses_remaining = v.max_uses]

\* used[] counts up to UsedCap and stays there
Min(a, b) == IF a < b THEN a ELSE b
UsedCap == MaxUsesBound + 1

\* ---- operations ----
\* A caller is one request.  pc[c] is "idle" (no instance), "holding" (an
\* instance from create or get), "locked" (inside get_and_update, after the
\* locking read), "done" (get_and_update returned or raised, the transaction
\* still open) or "saved" (deactivate or reactivate returned).

Init ==
    /\ db = <<>>
    /\ lock = [i \in AllIds |-> 0]
    /\ now = 0
    /\ pc = [c \in Callers |-> "idle"]
    /\ obj = [c \in Callers |-> NoObj]
    /\ res = [c \in Callers |-> "none"]
    /\ used = [i \in AllIds |-> 0]
    /\ link = NoLink

\* The clock advances
Tick ==
    /\ now < MaxTime
    /\ now' = now + 1
    /\ UNCHANGED <<db, lock, pc, obj, res, used, link>>

\* Visitor.objects.create(email="v@x.test", scope="s", expires_at=e,
\* max_uses=m): __init__ then INSERT
Create(c, e, m) ==
    /\ pc[c] = "idle"
    /\ Len(db) + 1 \in PassIds
    /\ \E u \in Tokens \ {db[i].uuid : i \in Ids} :
         LET v == VisitorInit([id |-> Len(db) + 1, uuid |-> u,
                               email |-> "v@x.test", scope |-> "s",
                               created_at |-> now,
                               expires_at |-> e, is_active |-> TRUE,
                               max_uses |-> m, uses_remaining |-> None])
         IN /\ db' = Append(db, SaveAll(v))
            /\ obj' = [obj EXCEPT ![c] = v]
    /\ pc' = [pc EXCEPT ![c] = "holding"]
    /\ res' = [res EXCEPT ![c] = "created"]
    /\ UNCHANGED <<lock, now, used, link>>

\* Visitor.objects.get(uuid=u): a plain read, it takes no lock
Load(c, u) ==
    /\ pc[c] = "idle"
    /\ \E i \in Lookup(u) :
         obj' = [obj EXCEPT ![c] = FromDb(i)]
    /\ pc' = [pc EXCEPT ![c] = "holding"]
    /\ res' = [res EXCEPT ![c] = "loaded"]
    /\ UNCHANGED <<db, lock, now, used, link>>

\* get_and_update, line 24: select_for_update().get(uuid=u)
get_and_update_get(c, u) ==
    /\ pc[c] = "idle"
    /\ IF Lookup(u) = {}
       THEN /\ res' = [res EXCEPT ![c] = "NotFound"]
            /\ pc' = [pc EXCEPT ![c] = "done"]
            /\ UNCHANGED <<lock, obj>>
       ELSE \E i \in Lookup(u) :
            /\ RowAvailable(i, c)
            /\ lock' = select_for_update(i, c)
            /\ obj' = [obj EXCEPT ![c] = FromDb(i)]
            /\ pc' = [pc EXCEPT ![c] = "locked"]
            /\ UNCHANGED res
    /\ UNCHANGED <<db, now, used, link>>

\* get_and_update, lines 25-29: validate, decrement, save, return
get_and_update_update(c) ==
    /\ pc[c] = "locked"
    /\ LET v == obj[c]
           r == validate(v, now)
       IN /\ res' = [res EXCEPT ![c] = r]
          /\ IF Decrements(v, r)
             THEN LET w == [v EXCEPT !.uses_remaining = Decrement(v.uses_remaining)]
                  IN /\ obj' = [obj EXCEPT ![c] = w]
                     /\ db' = [db EXCEPT ![v.id] = SaveUsesRemaining(db[v.id], w)]
             ELSE UNCHANGED <<db, obj>>
          /\ used' = IF r = "ok"
                     THEN [used EXCEPT ![v.id] = Min(used[v.id] + 1, UsedCap)]
                     ELSE used
    /\ pc' = [pc EXCEPT ![c] = "done"]
    /\ UNCHANGED <<lock, now, link>>

\* Visitor.deactivate on the instance caller c holds
deactivate(c) ==
    /\ pc[c] = "holding"
    /\ RowAvailable(obj[c].id, c)
    /\ LET v == Deactivated(obj[c])
       IN /\ obj' = [obj EXCEPT ![c] = v]
          /\ db' = [db EXCEPT ![v.id] = SaveAll(v)]
    /\ pc' = [pc EXCEPT ![c] = "saved"]
    /\ res' = [res EXCEPT ![c] = "deactivated"]
    /\ UNCHANGED <<lock, now, used, link>>

\* Visitor.reactivate on the instance caller c holds
reactivate(c) ==
    /\ pc[c] = "holding"
    /\ RowAvailable(obj[c].id, c)
    /\ LET v == Reactivated(obj[c], now)
       IN /\ obj' = [obj EXCEPT ![c] = v]
          /\ db' = [db EXCEPT ![v.id] = SaveAll(v)]
          /\ used' = [used EXCEPT ![v.id] = 0]
    /\ pc' = [pc EXCEPT ![c] = "saved"]
    /\ res' = [res EXCEPT ![c] = "reactivated"]
    /\ UNCHANGED <<lock, now, link>>

\* The request ends: its transaction (if any) commits or rolls back, which
\* releases the row lock, and its instance is dropped
EndRequest(c) ==
    /\ pc[c] \in {"holding", "done", "saved"}
    /\ lock' = [i \in DOMAIN lock |-> IF lock[i] = c THEN 0 ELSE lock[i]]
    /\ pc' = [pc EXCEPT ![c] = "idle"]
    /\ obj' = [obj EXCEPT ![c] = NoObj]
    /\ res' = [res EXCEPT ![c] = "none"]
    /\ UNCHANGED <<db, now, used, link>>

Next ==
    \/ Tick
    \/ \E c \in Callers, e \in ExpiresAtOptions, m \in MaxUsesOptions : Create(c, e, m)
    \/ \E c \in Callers, u \in Tokens : Load(c, u)
    \/ \E c \in Callers, u \in Tokens \cup UnknownTokens : get_and_update_get(c, u)
    \/ \E c \in Callers : get_and_update_update(c)
    \/ \E c \in Callers : deactivate(c)
    \/ \E c \in Callers : reactivate(c)
    \/ \E c \in Callers : EndRequest(c)

Spec == Init /\ [][Next]_vars

TypeOK ==
    /\ now \in Times
    /\ DOMAIN db \subseteq PassIds
    /\ \A c \in Callers : pc[c] \in {"idle", "holding", "locked", "done", "saved"}

\* ---- Visitor.tokenise ----
\* A url is its query, a sequence of <<name, value>> pairs, and the rest
\* (scheme, host, path, fragment), which urlparse and urlunparse carry over.
\* Names are strings; values are sequences of characters, held decoded
\* (urlencode quotes what parse_qs unquotes).

\* VISITOR_QUERYSTRING_KEY (models.py:14)
VISITOR_QUERYSTRING_KEY == "vuid"

ParamNames == {"a", "b", VISITOR_QUERYSTRING_KEY}
ParamValues == {<<"1">>, <<"2">>}
Queries == UNION {[1..n -> ParamNames \X ParamValues] : n \in 0..MaxParams}

\* str(self.uuid)
StrUuid(u) == <<"u", ToString(u)>>

Chars(s) == {s[i] : i \in DOMAIN s}

\* The quote Python's repr puts around the string s
ReprQuote(s) == IF "'" \in Chars(s) /\ "\"" \notin Chars(s) THEN "\"" ELSE "'"

\* s with backslashes and the quote q escaped
RECURSIVE Escaped(_, _)
Escaped(s, q) ==
    IF s = <<>> THEN <<>>
    ELSE (IF s[1] = "\\" \/ s[1] = q THEN <<"\\", s[1]>> ELSE <<s[1]>>)
         \o Escaped(Tail(s), q)

\* repr(s) of a str
ReprStr(s) == <<ReprQuote(s)>> \o Escaped(s, ReprQuote(s)) \o <<ReprQuote(s)>>

\* str(vs) of a list of str: "[" + ", ".join(repr(v)) + "]"
RECURSIVE JoinRepr(_)
JoinRepr(vs) ==
    IF vs = <<>> THEN <<>>
    ELSE IF Len(vs) = 1 THEN ReprStr(vs[1])
    ELSE ReprStr(vs[1]) \o <<",", " ">> \o JoinRepr(Tail(vs))

StrList(vs) == <<"[">> \o JoinRepr(vs) \o <<"]">>

\* A dict is a sequence of entries in insertion order; an entry's value is a
\* list of strings (list = TRUE) or a single object (list = FALSE)
DictIndex(d, k) == {i \in DOMAIN d : d[i].k = k}

\* parse_qs: appends v to the list under k
DictAppend(d, k, v) ==
    IF DictIndex(d, k) = {}
    THEN Append(d, [k |-> k, list |-> TRUE, v |-> <<v>>])
    ELSE [i \in DOMAIN d |-> IF d[i].k = k
                             THEN [d[i] EXCEPT !.v = Append(d[i].v, v)]
                             ELSE d[i]]

\* parse_qs(parts[4]): name -> list of values; blank values are dropped
RECURSIVE parse_qs(_)
parse_qs(q) ==
    IF q = <<>> THEN <<>>
    ELSE LET d == parse_qs(SubSeq(q, 1, Len(q) - 1))
             p == q[Len(q)]
         IN IF p[2] = <<>> THEN d ELSE DictAppend(d, p[1], p[2])

\* query.update({k: x}): x replaces the value under k, or is added last
DictUpdate(d, k, x) ==
    IF DictIndex(d, k) = {}
    THEN Append(d, [k |-> k, list |-> FALSE, v |-> x])
    ELSE [i \in DOMAIN d |-> IF d[i].k = k
                             THEN [k |-> k, list |-> FALSE, v |-> x]
                             ELSE d[i]]

\* urlencode(query), doseq not given: every value goes through str()
urlencode(d) ==
    [i \in DOMAIN d |-> <<d[i].k, IF d[i].list THEN StrList(d[i].v) ELSE d[i].v>>]

\* Visitor.tokenise(url) of the pass with uuid u
tokenise(u, url) ==
    [url EXCEPT !.query =
        urlencode(DictUpdate(parse_qs(url.query), VISITOR_QUERYSTRING_KEY, StrUuid(u)))]

\* A pass and a url to tokenise
InitURL ==
    /\ db = <<>>
    /\ lock = [i \in AllIds |-> 0]
    /\ now = 0
    /\ pc = [c \in Callers |-> "idle"]
    /\ obj = [c \in Callers |-> NoObj]
    /\ res = [c \in Callers |-> "none"]
    /\ used = [i \in AllIds |-> 0]
    /\ \E u \in Tokens, q \in Queries :
         link = [uuid |-> u, urls |-> <<[rest |-> "https://x.test/p", query |-> q]>>]

\* The last result is tokenised again
Tokenise ==
    /\ Len(link.urls) <= MaxTokenise
    /\ link' = [link EXCEPT !.urls = Append(@, tokenise(link.uuid, @[Len(@)]))]
    /\ UNCHANGED <<db, lock, now, pc, obj, res, used>>

NextURL == Tokenise

SpecURL == InitURL /\ [][NextURL]_vars

\* ---- creation with every argument, two passes ----

\* Variant: the default is one value computed once (default=uuid.uuid4())
uuid4_fixed(d) == {1}

\* The uuid column's default, uuid.uuid4: a value no row of d carries
uuid4(d) == AllTokens \ {d[i].uuid : i \in DOMAIN d}

\* Visitor.objects.create(email=em, scope=sc, expires_at=e, max_uses=m)
Issue(c, e, m, em, sc) ==
    /\ pc[c] = "idle"
    /\ Len(db) + 1 \in AllIds
    /\ \E u \in uuid4(db) :
         LET v == VisitorInit([id |-> Len(db) + 1, uuid |-> u,
                               email |-> em, scope |-> sc,
                               created_at |-> now,
                               expires_at |-> e, is_active |-> TRUE,
                               max_uses |-> m, uses_remaining |-> None])
         IN /\ db' = Append(db, SaveAll(v))
            /\ obj' = [obj EXCEPT ![c] = v]
    /\ pc' = [pc EXCEPT ![c] = "holding"]
    /\ res' = [res EXCEPT ![c] = "created"]
    /\ UNCHANGED <<lock, now, used, link>>

\* Passes are created with any email and scope, and read back
NextIssue ==
    \/ Tick
    \/ \E c \in Callers, e \in ExpiresAtOptions, m \in MaxUsesOptions,
          em \in Emails, sc \in Scopes : Issue(c, e, m, em, sc)
    \/ \E c \in Callers, u \in AllTokens : Load(c, u)
    \/ \E c \in Callers : EndRequest(c)

SpecIssue == Init /\ [][NextIssue]_vars

\* Two passes, each unlimited or single-use, every operation on either; the
\* clock stands still
NextTwo ==
    \/ \E c \in Callers, m \in {None, 1} : Issue(c, None, m, "v@x.test", "s")
    \/ \E c \in Callers, u \in AllTokens : Load(c, u)
    \/ \E c \in Callers, u \in AllTokens \cup UnknownTokens : get_and_update_get(c, u)
    \/ \E c \in Callers : get_and_update_update(c)
    \/ \E c \in Callers : deactivate(c)
    \/ \E c \in Callers : reactivate(c)
    \/ \E c \in Callers : EndRequest(c)

SpecTwo == Init /\ [][NextTwo]_vars

\* ---- steps of get_and_update, as seen from outside ----

\* Caller c's get_and_update runs its lines 25-29 in this step
Validates(c) == pc[c] = "locked" /\ pc'[c] = "done"

\* Caller c's get_and_update raises in this step
Fails(c) == pc[c] \in {"idle", "locked"} /\ pc'[c] = "done" /\ res'[c] # "ok"

\* Caller c's deactivate / reactivate runs in this step
Deactivates(c) == pc[c] = "holding" /\ pc'[c] = "saved" /\ res'[c] = "deactivated"
Reactivates(c) == pc[c] = "holding" /\ pc'[c] = "saved" /\ res'[c] = "reactivated"

\* The stored row that caller c's instance belongs to
RowOf(c) == db[obj[c].id]

\* ---- claims ----

\* C1: on an active, unexpired pass with max_uses = N, racing get_and_update
\* calls succeed until N of them have succeeded, and every other and later
\* call fails with ExhaustedUses; the number of successes never exceeds N.
C1_AtMostNUses ==
    /\ [](\A i \in Ids : db[i].max_uses # None => used[i] <= db[i].max_uses)
    /\ [][\A c \in Callers :
            (Validates(c) /\ RowOf(c).max_uses # None
               /\ RowOf(c).is_active /\ ~has_expired(RowOf(c), now))
            => IF used[obj[c].id] < RowOf(c).max_uses
               THEN res'[c] = "ok" /\ used'[obj[c].id] = used[obj[c].id] + 1
               ELSE res'[c] = "ExhaustedUses" /\ used' = used]_vars

\* A call was refused with ExhaustedUses after exactly N >= 1 had succeeded
C1_Witness ==
    \E c \in Callers :
        /\ pc[c] = "done" /\ res[c] = "ExhaustedUses"
        /\ RowOf(c).is_active /\ ~has_expired(RowOf(c), now)
        /\ RowOf(c).max_uses >= 1
        /\ used[obj[c].id] = RowOf(c).max_uses

\* C2: a get_and_update call that fails (not found, inactive, expired, out of
\* uses) changes no field of any stored row.
C2_FailureWritesNothing ==
    [][\A c \in Callers : Fails(c) => db' = db]_vars

\* A call failed on a pass that still had a use to take
C2_Witness ==
    \E c \in Callers :
        /\ pc[c] = "done" /\ res[c] \in {"Inactive", "Expired"}
        /\ RowOf(c).max_uses # None /\ RowOf(c).uses_remaining >= 1

\* C3: a successful get_and_update on a limited pass stores uses_remaining one
\* below the value read under the lock (which is still the stored value),
\* returns the instance with that value, and leaves the other columns alone.
C3_SuccessTakesOneUse ==
    [][\A c \in Callers :
         (Validates(c) /\ res'[c] = "ok" /\ obj[c].max_uses # None)
         => LET i == obj[c].id
            IN /\ db[i].uses_remaining = obj[c].uses_remaining
               /\ db'[i].uses_remaining = obj[c].uses_remaining - 1
               /\ obj'[c].uses_remaining = db'[i].uses_remaining
               /\ db'[i] = [db[i] EXCEPT !.uses_remaining = db'[i].uses_remaining]
               /\ \A j \in Ids \ {i} : db'[j] = db[j]]_vars

\* A call has succeeded on a limited pass and holds the returned instance
C3_Witness ==
    \E c \in Callers :
        /\ pc[c] = "done" /\ res[c] = "ok"
        /\ obj[c].max_uses # None
        /\ RowOf(c).uses_remaining = obj[c].uses_remaining
        /\ used[obj[c].id] >= 1

\* C4: every stored pass with max_uses set has 0 <= uses_remaining <= max_uses.
C4_UsesInRange ==
    \A i \in Ids :
        db[i].max_uses # None
        => db[i].uses_remaining >= 0 /\ db[i].uses_remaining <= db[i].max_uses

\* A limited pass has been used up
C4_Witness ==
    \E i \in Ids :
        db[i].max_uses >= 1 /\ db[i].uses_remaining = 0 /\ used[i] = db[i].max_uses

\* C5: for every pass record, stored or held in memory, uses_remaining is
\* null exactly when max_uses is null.
C5_NullTogether ==
    /\ \A i \in Ids : (db[i].uses_remaining = None) <=> (db[i].max_uses = None)
    /\ \A c \in Callers :
         obj[c].id # 0 => ((obj[c].uses_remaining = None) <=> (obj[c].max_uses = None))

\* A limited pass has been created and a caller reactivated it
C5_Witness ==
    \E c \in Callers :
        /\ pc[c] = "saved" /\ res[c] = "reactivated"
        /\ RowOf(c).max_uses # None /\ RowOf(c).uses_remaining # None

\* C6: every write to a stored row is made by a transaction that holds the
\* row's lock.
C6_WritesUnderLock ==
    [][\A i \in Ids : db'[i] # db[i] => lock[i] # 0]_vars

\* C7: deactivate leaves the stored uses_remaining, expires_at and max_uses
\* as they were immediately before its write.
C7_DeactivateWritesIsActiveOnly ==
    [][\A c \in Callers :
         Deactivates(c)
         => LET i == obj[c].id
            IN /\ db'[i].uses_remaining = db[i].uses_remaining
               /\ db'[i].expires_at = db[i].expires_at
               /\ db'[i].max_uses = db[i].max_uses]_vars

\* C8: validate reports Inactive for an inactive pass whatever else holds,
\* Expired for an active expired pass whatever its use count, and
\* ExhaustedUses only for an active, unexpired pass.
C8_ValidateOrder ==
    [][\A c \in Callers :
         Validates(c)
         => /\ ~RowOf(c).is_active => res'[c] = "Inactive"
            /\ (RowOf(c).is_active /\ has_expired(RowOf(c), now))
                 => res'[c] = "Expired"
            /\ res'[c] = "ExhaustedUses"
                 => /\ RowOf(c).is_active /\ ~has_expired(RowOf(c), now)
                    /\ out_of_uses(RowOf(c))]_vars

\* A pass that is inactive, expired and out of uses was refused as Inactive
C8_Witness ==
    \E c \in Callers :
        /\ pc[c] = "done" /\ res[c] = "Inactive"
        /\ has_expired(RowOf(c), now) /\ out_of_uses(RowOf(c))

\* C9: reactivate at time T stores is_active = true, expires_at = T +
\* DEFAULT_TOKEN_EXPIRY and uses_remaining = max_uses, and the stored pass is
\* valid at T when max_uses is null or at least 1.
C9_ReactivateResets ==
    [][\A c \in Callers :
         Reactivates(c)
         => LET r == db'[obj[c].id]
            IN /\ r.is_active
               /\ r.expires_at = now + DEFAULT_TOKEN_EXPIRY
               /\ r.uses_remaining = r.max_uses
               /\ r.max_uses = db[obj[c].id].max_uses
               /\ (r.max_uses = None \/ r.max_uses >= 1) => is_valid(r, now)]_vars

\* A pass was reactivated and is valid, while another caller still holds the
\* instance it read when the pass was inactive, expired and out of uses
C9_Witness ==
    \E c, d \in Callers :
        /\ pc[c] = "saved" /\ res[c] = "reactivated"
        /\ RowOf(c).max_uses >= 1 /\ is_valid(RowOf(c), now)
        /\ pc[d] = "holding" /\ obj[d].id = obj[c].id
        /\ ~obj[d].is_active /\ has_expired(obj[d], now) /\ out_of_uses(obj[d])

\* C10: on a pass with max_uses null, every get_and_update made while it is
\* active and unexpired succeeds, however many succeeded before, and its
\* uses_remaining is null in every reachable state.
C10_UnlimitedPass ==
    /\ [](\A i \in Ids : db[i].max_uses = None => db[i].uses_remaining = None)
    /\ [][\A c \in Callers :
            (Validates(c) /\ RowOf(c).max_uses = None
               /\ RowOf(c).is_active /\ ~has_expired(RowOf(c), now))
            => res'[c] = "ok"]_vars

\* An unlimited pass was consumed more often than any limited pass allows
C10_Witness ==
    \E c \in Callers :
        /\ pc[c] = "done" /\ res[c] = "ok"
        /\ RowOf(c).max_uses = None /\ RowOf(c).uses_remaining = None
        /\ used[obj[c].id] = UsedCap

\* C11: deactivate leaves the stored pass inactive, the stored pass stays
\* inactive in every step that is not a reactivate of that pass, and every
\* get_and_update on an inactive pass fails with Inactive, whatever the time
\* and the remaining uses.
C11_InactiveUntilReactivate ==
    /\ [][\A c \in Callers : Deactivates(c) => ~db'[obj[c].id].is_active]_vars
    /\ [][\A i \in Ids :
            (~db[i].is_active /\ ~\E c \in Callers : Reactivates(c) /\ obj[c].id = i)
            => ~db'[i].is_active]_vars
    /\ [][\A c \in Callers :
            (Validates(c) /\ ~RowOf(c).is_active) => res'[c] = "Inactive"]_vars

\* A deactivated pass that is unexpired and has a use left was refused as
\* Inactive at a time after its deactivation
C11_Witness ==
    \E c \in Callers :
        /\ pc[c] = "done" /\ res[c] = "Inactive"
        /\ ~has_expired(RowOf(c), now)
        /\ RowOf(c).max_uses # None /\ RowOf(c).uses_remaining >= 1
        /\ RowOf(c).last_updated_at < now

\* C14: every step that changes a stored row at time t leaves that row's
\* last_updated_at equal to t.
C14_WritesStampLastUpdated ==
    [][\A i \in Ids : db'[i] # db[i] => db'[i].last_updated_at = now]_vars

\* C15: a pass created without expires_at gets expires_at = created_at +
\* DEFAULT_TOKEN_EXPIRY, a pass created with expires_at keeps it, and
\* expires_at is non-null in every stored row and every instance.
C15_DefaultExpiry ==
    /\ [](/\ \A i \in Ids : db[i].expires_at # None
          /\ \A c \in Callers : obj[c].id # 0 => obj[c].expires_at # None)
    /\ [][Len(db') > Len(db)
          => \A c \in Callers, e \in ExpiresAtOptions, m \in MaxUsesOptions :
               Create(c, e, m)
               => LET r == db'[Len(db')]
                  IN /\ r.created_at = now
                     /\ e = None => r.expires_at = r.created_at + DEFAULT_TOKEN_EXPIRY
                     /\ e # None => r.expires_at = e
                     /\ obj'[c].expires_at = r.expires_at]_vars

\* A pass was created after time 0 and carries the default expiry
C15_Witness ==
    \E c \in Callers :
        /\ pc[c] = "holding" /\ res[c] = "created"
        /\ RowOf(c).created_at >= 1
        /\ RowOf(c).expires_at = RowOf(c).created_at + DEFAULT_TOKEN_EXPIRY

C18_UsesAccountedFor ==
    \A i \in Ids :
        db[i].max_uses # None => db[i].max_uses - db[i].uses_remaining = used[i]

\* C19: a pass with max_uses = 0 has uses_remaining = 0 and is invalid in
\* every state, also after reactivate, and no get_and_update on it succeeds.
C19_ZeroUsesNeverValid ==
    /\ [](\A i \in Ids :
            db[i].max_uses = 0
            => db[i].uses_remaining = 0 /\ ~is_valid(db[i], now) /\ used[i] = 0)
    /\ [][\A c \in Callers :
            (Validates(c) /\ RowOf(c).max_uses = 0) => res'[c] # "ok"]_vars

\* A pass with max_uses = 0 was reactivated (it is active and was written
\* after its creation) and then refused with ExhaustedUses
C19_Witness ==
    \E c \in Callers :
        /\ pc[c] = "done" /\ res[c] = "ExhaustedUses"
        /\ RowOf(c).max_uses = 0 /\ RowOf(c).uses_remaining = 0
        /\ RowOf(c).is_active /\ RowOf(c).last_updated_at > RowOf(c).created_at

\* C20: a stored pass that is invalid becomes valid again only in a
\* reactivate step on it (never by get_and_update, deactivate or the passing
\* of time), and every get_and_update on an invalid pass fails.
C20_OnlyReactivateRevives ==
    /\ [][\A i \in Ids :
            (~is_valid(db[i], now) /\ is_valid(db'[i], now'))
            => \E c \in Callers : Reactivates(c) /\ obj[c].id = i]_vars
    /\ [][\A c \in Callers :
            (Validates(c) /\ ~is_valid(RowOf(c), now)) => res'[c] # "ok"]_vars

\* A call was refused with ExhaustedUses while another caller still holds
\* the instance it read when the pass was active and had a use left
C20_Witness ==
    \E c, d \in Callers :
        /\ pc[c] = "done" /\ res[c] = "ExhaustedUses"
        /\ pc[d] = "holding" /\ obj[d].id = obj[c].id
        /\ obj[d].is_active /\ obj[d].uses_remaining >= 1

\* The pairs of query q under the token parameter
TokenPairs(q) == {i \in DOMAIN q : q[i][1] = VISITOR_QUERYSTRING_KEY}

\* C12: a url tokenised once or more has exactly one token parameter, whose
\* value is the pass's uuid; every other parameter of the original url is
\* still there with its name and value; and tokenising the result again
\* gives the same url.
C12_TokeniseIdempotent ==
    LET us == link.urls
    IN \A k \in 2..Len(us) :
         /\ Cardinality(TokenPairs(us[k].query)) = 1
         /\ \A i \in TokenPairs(us[k].query) : us[k].query[i][2] = StrUuid(link.uuid)
         /\ \A j \in DOMAIN us[1].query :
              us[1].query[j][1] # VISITOR_QUERYSTRING_KEY
              => \E m \in DOMAIN us[k].query : us[k].query[m] = us[1].query[j]
         /\ us[k].rest = us[1].rest
         /\ k >= 3 => us[k] = us[k - 1]

\* C13: no pass is stored with an empty email or an empty scope, and no
\* creation with one of them empty reports success.
C13_EmptyEmailOrScopeRejected ==
    /\ \A i \in Ids : db[i].email # "" /\ db[i].scope # ""
    /\ \A c \in Callers :
         res[c] = "created" => obj[c].email # "" /\ obj[c].scope # ""

====
